---- MODULE Spec2Model ----
(***************************************************************************)
(* y2j: a model of src/main.rs (convert, convert_dir, Notes).              *)
(*                                                                         *)
(* A file name is a sequence of one-character strings, so that the suffix  *)
(* test and the extension replacement work on the characters of the name.  *)
(* A path is a sequence of components, each of them such a name; the empty *)
(* sequence is the empty path "".  Relative paths are resolved against the *)
(* current working directory, the root <<>> of the modelled file system.   *)
(***************************************************************************)
EXTENDS Integers, Sequences, FiniteSets, TLC

VARIABLES
    fs,         \* the file system: canonical path -> node (directory or file)
    fs0,        \* the file system main was started on
    listing,    \* read_dir order of the input directory, with each entry's outcome
    pc,         \* "main", "walk" (inside the loop of convert_dir), "done"
    mode,       \* "none", "file" (-f) or "dir" (-d)
    from_path,  \* arg_inpath
    to_path,    \* arg_outpath
    iter,       \* the items the directory walk has still to yield
    res,        \* the Result main receives: [kind, msg]
    trace,      \* what the run did to the outside world, in order
    cstage,     \* codec pipeline: "text", "notes", "json", "back", "failed"
    ctext,      \* codec pipeline: the source text
    cnotes,     \* codec pipeline: the decoded Notes
    cjson,      \* codec pipeline: the encoded JSON
    cback       \* codec pipeline: the JSON decoded again

vars == <<fs, fs0, listing, pc, mode, from_path, to_path, iter, res, trace,
          cstage, ctext, cnotes, cjson, cback>>

fsVars == <<fs, fs0, listing, pc, mode, from_path, to_path, iter, res, trace>>
codecVars == <<cstage, ctext, cnotes, cjson, cback>>

(***************************************************************************)
(* Bounds.                                                                 *)
(***************************************************************************)
MaxNodes == 3       \* nodes of a source document
MaxEntries == 3     \* entries of the input directory

(***************************************************************************)
(* Names.                                                                  *)
(***************************************************************************)
DOT == "."
SufYaml == <<".", "y", "a", "m", "l">>
SufYml == <<".", "y", "m", "l">>
SufJson == <<".", "j", "s", "o", "n">>
ExtJson == <<"j", "s", "o", "n">>

N_a_yaml == <<"a", ".", "y", "a", "m", "l">>
N_a_yml == <<"a", ".", "y", "m", "l">>
N_b_yml == <<"b", ".", "y", "m", "l">>
N_c_txt == <<"c", ".", "t", "x", "t">>
N_yaml == <<".", "y", "a", "m", "l">>
N_a_b_yaml == <<"a", ".", "b", ".", "y", "a", "m", "l">>
N_a_YAML == <<"a", ".", "Y", "A", "M", "L">>
N_sub == <<"s", "u", "b">>
N_d_yml == <<"d", ".", "y", "m", "l">>
N_x_yaml == <<"x", ".", "y", "a", "m", "l">>
N_a_json == <<"a", ".", "j", "s", "o", "n">>
N_in == <<"i", "n">>
N_out == <<"o", "u", "t">>
N_nodir == <<"n", "o", "d", "i", "r">>
N_cur == <<".">>

\* str::ends_with
EndsWith(s, suf) ==
    /\ Len(s) >= Len(suf)
    /\ SubSeq(s, Len(s) - Len(suf) + 1, Len(s)) = suf

\* the position of the last '.' of a name, 0 when it has none
LastDot(s) ==
    LET ds == {i \in 1..Len(s) : s[i] = DOT}
    IN  IF ds = {} THEN 0 ELSE CHOOSE i \in ds : \A j \in ds : j <= i

\* Path::file_stem: the name up to its last '.', the whole name when it has no
\* '.' or only a leading one
FileStem(s) ==
    IF s = <<DOT, DOT>> THEN s
    ELSE IF LastDot(s) <= 1 THEN s
    ELSE SubSeq(s, 1, LastDot(s) - 1)

\* PathBuf::set_extension on the last component
SetExtension(s, ext) == FileStem(s) \o <<DOT>> \o ext

\* the eligibility test of convert_dir
IsYamlName(file_name) == EndsWith(file_name, SufYaml) \/ EndsWith(file_name, SufYml)

\* the destination name convert_dir derives for an entry
NewName(file_name) == SetExtension(file_name, ExtJson)

(***************************************************************************)
(* Paths and the file system.                                              *)
(***************************************************************************)
RECURSIVE Canon(_)
\* the path the operating system resolves p to: "." components dropped
Canon(p) ==
    IF p = <<>> THEN <<>>
    ELSE IF Head(p) = N_cur THEN Canon(Tail(p))
    ELSE <<Head(p)>> \o Canon(Tail(p))

Front(p) == SubSeq(p, 1, Len(p) - 1)

\* Path::parent: None for the empty path
Parent(p) == [some |-> p # <<>>, path |-> IF p = <<>> THEN <<>> ELSE Front(p)]

\* Path::join
Join(p, name) == p \o <<name>>

\* Path::exists: metadata of the empty path fails, so "" does not exist
Exists(f, p) == p # <<>> /\ Canon(p) \in DOMAIN f

IsDir(f, p) == Canon(p) \in DOMAIN f /\ f[Canon(p)].kind = "dir"
IsFile(f, p) == Canon(p) \in DOMAIN f /\ f[Canon(p)].kind = "file"

(***************************************************************************)
(* Document model and codec (struct Notes, serde's derived impls).         *)
(*                                                                         *)
(* A source text is [fmt |-> "yaml", valid, doc]: valid says whether it is *)
(* well-formed YAML, doc is the mapping it denotes.  A mapping has a title *)
(* key (a string, a value of another type, or missing), possibly a key the *)
(* schema does not know (extra), and a notes key that is absent, null or a *)
(* sequence of mappings.                                                   *)
(* A Notes value is [title, notes |-> [some, items]] (Option<Vec<Notes>>). *)
(* A destination text is [fmt |-> "json", obj], an object being            *)
(* [jtitle, jnotes |-> [null, elems]].                                     *)
(***************************************************************************)
NoNotes == [title |-> "", notes |-> [some |-> FALSE, items |-> <<>>]]
NoJson == [fmt |-> "json", obj |-> [jtitle |-> "", jnotes |-> [null |-> TRUE, elems |-> <<>>]]]

DeErr == [ok |-> FALSE, val |-> NoNotes]

RECURSIVE DeserializeYaml(_)
\* #[derive(Deserialize)] for Notes, driven by a YAML mapping: title is
\* required and must be a string, notes is an Option (absent or null give
\* None), unknown keys are ignored, an error in a nested note is an error.
DeserializeYaml(y) ==
    IF y.title.kind # "str" THEN DeErr
    ELSE IF y.notes.state # "seq"
    THEN [ok |-> TRUE,
          val |-> [title |-> y.title.text, notes |-> [some |-> FALSE, items |-> <<>>]]]
    ELSE LET rs == [i \in 1..Len(y.notes.items) |-> DeserializeYaml(y.notes.items[i])]
         IN  IF \E i \in 1..Len(rs) : ~rs[i].ok THEN DeErr
             ELSE [ok |-> TRUE,
                   val |-> [title |-> y.title.text,
                            notes |-> [some |-> TRUE,
                                       items |-> [i \in 1..Len(rs) |-> rs[i].val]]]]

\* Notes::from_yaml
FromYaml(text) == IF ~text.valid THEN DeErr ELSE DeserializeYaml(text.doc)

RECURSIVE SerializeJson_NoneAsEmpty(_)
\* None written as an empty array
SerializeJson_NoneAsEmpty(n) ==
    [jtitle |-> n.title,
     jnotes |-> [null |-> FALSE,
                 elems |-> [i \in 1..Len(n.notes.items) |->
                               SerializeJson_NoneAsEmpty(n.notes.items[i])]]]

RECURSIVE SerializeJson(_)
\* #[derive(Serialize)] for Notes, driven by serde_json: both fields are
\* always written, title first; None is written as null.
SerializeJson(n) ==
    [jtitle |-> n.title,
     jnotes |-> IF n.notes.some
                THEN [null |-> FALSE,
                      elems |-> [i \in 1..Len(n.notes.items) |->
                                    SerializeJson(n.notes.items[i])]]
                ELSE [null |-> TRUE, elems |-> <<>>]]

\* Notes::to_json; serde_json reports no error for this schema
ToJson(n) == [ok |-> TRUE, val |-> [fmt |-> "json", obj |-> SerializeJson(n)]]

RECURSIVE DeserializeJson(_)
\* #[derive(Deserialize)] for Notes, driven by a JSON object written by
\* SerializeJson: null gives None, an array gives Some.
DeserializeJson(j) ==
    [title |-> j.jtitle,
     notes |-> IF j.jnotes.null
               THEN [some |-> FALSE, items |-> <<>>]
               ELSE [some |-> TRUE,
                     items |-> [i \in 1..Len(j.jnotes.elems) |->
                                   DeserializeJson(j.jnotes.elems[i])]]]

(***************************************************************************)
(* The source documents of the model: every mapping of at most n nodes.    *)
(***************************************************************************)
YTitles == {[kind |-> "str", text |-> "t"], [kind |-> "str", text |-> "u"],
            [kind |-> "missing", text |-> ""]}

YLeafNotes == {[state |-> "absent", items |-> <<>>], [state |-> "null", items |-> <<>>],
               [state |-> "seq", items |-> <<>>]}

RECURSIVE YSize(_)
YSize(y) ==
    LET RECURSIVE Sum(_)
        Sum(s) == IF s = <<>> THEN 0 ELSE YSize(Head(s)) + Sum(Tail(s))
    IN  1 + Sum(y.notes.items)

RECURSIVE YDocs(_), YForests(_)
YDocs(n) ==
    IF n < 1 THEN {}
    ELSE {[title |-> t, extra |-> x, notes |-> ns] :
            t \in YTitles, x \in BOOLEAN,
            ns \in YLeafNotes \cup {[state |-> "seq", items |-> f] :
                                       f \in YForests(n - 1) \ {<<>>}}}

YForests(m) ==
    {<<>>} \cup UNION {{<<d>> \o f : f \in YForests(m - YSize(d))} : d \in YDocs(m)}

YamlTexts(n) ==
    {[fmt |-> "yaml", valid |-> v, doc |-> d] : v \in {TRUE}, d \in YDocs(n)}
    \cup {[fmt |-> "yaml", valid |-> FALSE,
           doc |-> [title |-> [kind |-> "str", text |-> "t"], extra |-> FALSE,
                    notes |-> [state |-> "absent", items |-> <<>>]]]}

(***************************************************************************)
(* convert (single file).                                                  *)
(***************************************************************************)
Ev(op, path, dst, ok) == [op |-> op, path |-> path, dst |-> dst, ok |-> ok]

OkRes == [kind |-> "Ok", msg |-> ""]
IoErr(msg) == [kind |-> "Io", msg |-> msg]        \* Error::Io
DeError == [kind |-> "De", msg |-> "Deserialization Error"]   \* From<serde_yaml::Error>
SerError == [kind |-> "Ser", msg |-> "Serialization Error"]   \* From<serde_json::Error>
IoError == IoErr("I/O Error")                      \* From<std::io::Error>

\* the check of the input path left out
InfileMissing_Skipped(f, from) == FALSE

\* if !from_path.exists()
InfileMissing(f, from) == ~Exists(f, from)

\* the check of the output directory left out
OutDirMissing_Skipped(f, to_dir) == FALSE

\* if !to_dir.exists()
OutDirMissing(f, to_dir) == ~Exists(f, to_dir)

\* fs::read_to_string: fails on a directory
ReadToString(f, p) ==
    IF IsFile(f, p) THEN [ok |-> TRUE, val |-> f[Canon(p)].text]
    ELSE [ok |-> FALSE, val |-> NoJson]

\* fs::write: creates or truncates the file and writes the whole text; fails
\* when the path is a directory or its parent is no directory
CanWrite(f, p) == p # <<>> /\ IsDir(f, Front(Canon(p))) /\ ~IsDir(f, p)

Write(f, p, text) ==
    [q \in DOMAIN f \cup {Canon(p)} |->
        IF q = Canon(p) THEN [kind |-> "file", text |-> text] ELSE f[q]]

\* convert(from_path, to_path): the result, the file system it leaves and
\* what it did, in order
Convert(f, from, to) ==
    LET hello == <<Ev("converting", from, to, TRUE)>>
        Fail(r, tr) == [res |-> r, fs |-> f, trace |-> hello \o tr]
        rd == <<Ev("read", from, <<>>, TRUE)>>
        dec == <<Ev("decode", from, <<>>, TRUE)>>
        enc == <<Ev("encode", from, <<>>, TRUE)>>
        wr == <<Ev("write", to, <<>>, TRUE)>>
    IN  IF InfileMissing(f, from) THEN Fail(IoErr("infile does not exist"), <<>>)
        ELSE IF ~Parent(to).some THEN Fail(IoErr("outfile doesn't have a parent"), <<>>)
        ELSE IF OutDirMissing(f, Parent(to).path)
        THEN Fail(IoErr("outfile directory does not exists"), <<>>)
        ELSE LET content == ReadToString(f, from)
             IN  IF ~content.ok THEN Fail(IoError, rd)
                 ELSE LET notes == FromYaml(content.val)
                      IN  IF ~notes.ok THEN Fail(DeError, rd \o dec)
                          ELSE LET json == ToJson(notes.val)
                               IN  IF ~json.ok THEN Fail(SerError, rd \o dec \o enc)
                                   ELSE IF ~CanWrite(f, to)
                                   THEN Fail(IoError, rd \o dec \o enc
                                                      \o <<Ev("write", to, <<>>, FALSE)>>)
                                   ELSE [res |-> OkRes,
                                         fs |-> Write(f, to, json.val),
                                         trace |-> hello \o rd \o dec \o enc \o wr]

(***************************************************************************)
(* convert_dir.                                                            *)
(***************************************************************************)
MinDepth == 1
MaxDepth == 1

\* the direct children of a directory, in read_dir order: [name, ok], ok
\* FALSE when the walk fails on the entry.  The order and the outcomes of
\* the input directory are the listing; any other directory reads well.
ReadDir(f, lst, dir) ==
    IF Canon(dir) = <<N_in>> THEN lst
    ELSE LET kids == {q \in DOMAIN f : q # <<>> /\ Front(q) = Canon(dir)}
             RECURSIVE Order(_)
             Order(S) == IF S = {} THEN <<>>
                         ELSE LET q == CHOOSE q \in S : TRUE
                              IN  <<[name |-> q[Len(q)], ok |-> TRUE]>> \o Order(S \ {q})
         IN  Order(kids)

RECURSIVE Walk(_, _, _, _)
\* walkdir: the root and then, depth first, what is below it, no deeper than
\* MaxDepth; an entry the walk fails on is yielded as an error
Walk(f, lst, p, depth) ==
    IF ~Exists(f, p) THEN <<[ok |-> FALSE, depth |-> depth, path |-> p, is_file |-> FALSE]>>
    ELSE <<[ok |-> TRUE, depth |-> depth, path |-> p, is_file |-> IsFile(f, p)]>>
         \o (IF IsDir(f, p) /\ depth < MaxDepth
             THEN LET es == ReadDir(f, lst, p)
                      RECURSIVE Below(_)
                      Below(i) ==
                          IF i > Len(es) THEN <<>>
                          ELSE (IF es[i].ok
                                THEN Walk(f, lst, Join(p, es[i].name), depth + 1)
                                ELSE <<[ok |-> FALSE, depth |-> depth + 1,
                                        path |-> Join(p, es[i].name), is_file |-> FALSE]>>)
                               \o Below(i + 1)
                  IN  Below(1)
             ELSE <<>>)

\* WalkDir::new(from_path).max_depth(1).min_depth(1): entries above MinDepth
\* are skipped, errors are yielded at any depth
WalkDir(f, lst, p) ==
    SelectSeq(Walk(f, lst, p, 0), LAMBDA it : ~it.ok \/ it.depth >= MinDepth)

\* the result of convert dropped instead of propagated
StepStops_Never(r) == FALSE

\* the `?` on the result of convert: an error ends convert_dir
StepStops(r) == r.kind # "Ok"

\* one iteration of the loop of convert_dir on the item e
ConvertDirStep(f, to, e) ==
    LET seen == <<Ev("entry", e.path, <<>>, e.ok)>>
        file_name == e.path[Len(e.path)]
    IN  IF e.ok /\ e.is_file /\ IsYamlName(file_name)
        THEN \* target.file_name() is None only for a path ending in "..",
             \* which no entry of a walk is
             LET target == Join(Front(e.path), NewName(file_name))
                 new_name == target[Len(target)]
                 r == Convert(f, e.path, Join(to, new_name))
             IN  [res |-> r.res, fs |-> r.fs, trace |-> seen \o r.trace]
        ELSE [res |-> OkRes, fs |-> f, trace |-> seen]

(***************************************************************************)
(* The files the runs start on.                                            *)
(***************************************************************************)
YLeaf(t) == [title |-> [kind |-> "str", text |-> t], extra |-> FALSE,
             notes |-> [state |-> "absent", items |-> <<>>]]
YText(d) == [fmt |-> "yaml", valid |-> TRUE, doc |-> d]

T_leaf == YText(YLeaf("t"))
T_kids == YText([title |-> [kind |-> "str", text |-> "t"], extra |-> FALSE,
                 notes |-> [state |-> "seq",
                            items |-> <<[title |-> [kind |-> "str", text |-> "u"],
                                         extra |-> FALSE,
                                         notes |-> [state |-> "seq", items |-> <<>>]]>>]])
T_notitle == YText([title |-> [kind |-> "missing", text |-> ""], extra |-> TRUE,
                    notes |-> [state |-> "seq", items |-> <<>>]])
T_nested == YText([title |-> [kind |-> "str", text |-> "t"], extra |-> FALSE,
                   notes |-> [state |-> "seq",
                              items |-> <<[title |-> [kind |-> "missing", text |-> ""],
                                           extra |-> TRUE,
                                           notes |-> [state |-> "absent", items |-> <<>>]]>>]])
T_old == [fmt |-> "json",
          obj |-> [jtitle |-> "old", jnotes |-> [null |-> TRUE, elems |-> <<>>]]]

FileNode(text) == [kind |-> "file", text |-> text]
DirNode == [kind |-> "dir"]

\* what the input directory may hold: [name, node, ok], ok FALSE when the
\* directory walk fails on the entry
Entry(name, node, ok) == [name |-> name, node |-> node, ok |-> ok]
Candidates ==
    { Entry(N_a_yaml, FileNode(T_leaf), TRUE),
      Entry(N_a_yaml, FileNode(T_notitle), TRUE),
      Entry(N_a_yaml, FileNode(T_leaf), FALSE),
      Entry(N_a_yml, FileNode(T_kids), TRUE),
      Entry(N_b_yml, FileNode(T_leaf), TRUE),
      Entry(N_b_yml, FileNode(T_nested), TRUE),
      Entry(N_c_txt, FileNode(T_leaf), TRUE),
      Entry(N_yaml, FileNode(T_leaf), TRUE),
      Entry(N_a_b_yaml, FileNode(T_kids), TRUE),
      Entry(N_a_YAML, FileNode(T_leaf), TRUE),
      Entry(N_sub, DirNode, TRUE),
      Entry(N_d_yml, DirNode, TRUE) }

RECURSIVE Dirs(_)
\* the directories of at most n entries, each a sequence in read_dir order
Dirs(n) ==
    IF n = 0 THEN {<<>>}
    ELSE Dirs(n - 1) \cup
         {Append(d, e) : d \in {d \in Dirs(n - 1) : Len(d) = n - 1},
                         e \in Candidates} 

DistinctNames(d) == \A i, j \in 1..Len(d) : i # j => d[i].name # d[j].name

\* the file system holding the input directory d, an output directory and,
\* when old, a file a.json already in it
MakeFs(d, old) ==
    LET here == {<<>>, <<N_in>>, <<N_out>>}
        ins == {<<N_in, d[i].name>> : i \in 1..Len(d)}
        deep == IF \E i \in 1..Len(d) : d[i].name = N_sub
                THEN {<<N_in, N_sub, N_x_yaml>>} ELSE {}
        outs == IF old THEN {<<N_out, N_a_json>>} ELSE {}
    IN  [q \in here \cup ins \cup deep \cup outs |->
            IF q \in here THEN DirNode
            ELSE IF q \in deep THEN FileNode(T_leaf)
            ELSE IF q \in outs THEN FileNode(T_old)
            ELSE (CHOOSE e \in {d[i] : i \in 1..Len(d)} : e.name = q[2]).node]

NoRes == [kind |-> "none", msg |-> ""]

InitCodecIdle ==
    /\ cstage = "idle"
    /\ ctext = T_leaf
    /\ cnotes = NoNotes
    /\ cjson = NoJson
    /\ cback = NoNotes

Init ==
    /\ \E d \in {d \in Dirs(MaxEntries) : DistinctNames(d)}, old \in BOOLEAN :
          /\ fs = MakeFs(d, old)
          /\ listing = [i \in 1..Len(d) |-> [name |-> d[i].name, ok |-> d[i].ok]]
    /\ fs0 = fs
    /\ pc = "main"
    /\ mode = "none"
    /\ from_path = <<>>
    /\ to_path = <<>>
    /\ iter = <<>>
    /\ res = NoRes
    /\ trace = <<>>
    /\ InitCodecIdle

(***************************************************************************)
(* main.                                                                   *)
(***************************************************************************)
\* the arguments of the runs
FileInputs == {<<N_in, listing[i].name>> : i \in 1..Len(listing)}
              \cup {<<N_in, N_x_yaml>>, <<N_in>>}
FileOutputs == {<<N_out, N_a_json>>, <<N_nodir, N_a_json>>, <<N_a_json>>,
                <<N_cur, N_a_json>>, <<N_cur, N_out>>, <<>>}
DirInputs == {<<N_in>>, <<N_nodir>>}
DirOutputs == {<<N_out>>, <<N_nodir>>}

\* y2j -f <inpath> <outpath>
MainFile ==
    /\ pc = "main"
    /\ \E from \in FileInputs, to \in FileOutputs :
          LET r == Convert(fs, from, to)
          IN  /\ from_path' = from
              /\ to_path' = to
              /\ fs' = r.fs
              /\ res' = r.res
              /\ trace' = trace \o r.trace
    /\ mode' = "file"
    /\ pc' = "done"
    /\ UNCHANGED <<fs0, listing, iter>>
    /\ UNCHANGED codecVars

\* y2j -d <inpath> <outpath>: convert_dir up to its loop
MainDir ==
    /\ pc = "main"
    /\ \E from \in DirInputs, to \in DirOutputs :
          /\ from_path' = from
          /\ to_path' = to
          /\ iter' = WalkDir(fs, listing, from)
    /\ mode' = "dir"
    /\ pc' = "walk"
    /\ UNCHANGED <<fs, fs0, listing, res, trace>>
    /\ UNCHANGED codecVars

\* convert_dir: one iteration of the loop
ConvertDirNext ==
    /\ pc = "walk"
    /\ iter # <<>>
    /\ LET r == ConvertDirStep(fs, to_path, Head(iter))
       IN  /\ fs' = r.fs
           /\ trace' = trace \o r.trace
           /\ IF StepStops(r.res)
              THEN pc' = "done" /\ res' = r.res
              ELSE pc' = "walk" /\ res' = res
    /\ iter' = Tail(iter)
    /\ UNCHANGED <<fs0, listing, mode, from_path, to_path>>
    /\ UNCHANGED codecVars

\* convert_dir: the walk is over, Ok(())
ConvertDirReturn ==
    /\ pc = "walk"
    /\ iter = <<>>
    /\ pc' = "done"
    /\ res' = OkRes
    /\ UNCHANGED <<fs, fs0, listing, mode, from_path, to_path, iter, trace>>
    /\ UNCHANGED codecVars

Next == MainFile \/ MainDir \/ ConvertDirNext \/ ConvertDirReturn

Spec == Init /\ [][Next]_vars

(***************************************************************************)
(* The codec on its own: lines 93 and 94 of convert applied to every       *)
(* source text of at most MaxNodes nodes, and the written JSON read back.  *)
(***************************************************************************)
InitCodec ==
    /\ fs = MakeFs(<<>>, FALSE)
    /\ fs0 = fs
    /\ listing = <<>>
    /\ pc = "done"
    /\ mode = "none"
    /\ from_path = <<>>
    /\ to_path = <<>>
    /\ iter = <<>>
    /\ res = NoRes
    /\ trace = <<>>
    /\ cstage = "text"
    /\ ctext \in YamlTexts(MaxNodes)
    /\ cnotes = NoNotes
    /\ cjson = NoJson
    /\ cback = NoNotes

\* let notes = Notes::from_yaml(&content)?
CodecDecode ==
    /\ cstage = "text"
    /\ LET r == FromYaml(ctext)
       IN  IF r.ok THEN cstage' = "notes" /\ cnotes' = r.val
           ELSE cstage' = "failed" /\ cnotes' = cnotes
    /\ UNCHANGED <<ctext, cjson, cback>>
    /\ UNCHANGED fsVars

\* let json = notes.to_json()?
CodecEncode ==
    /\ cstage = "notes"
    /\ LET r == ToJson(cnotes)
       IN  IF r.ok THEN cstage' = "json" /\ cjson' = r.val
           ELSE cstage' = "failed" /\ cjson' = cjson
    /\ UNCHANGED <<ctext, cnotes, cback>>
    /\ UNCHANGED fsVars

\* a reader of the output decodes it into a Notes again
CodecReadBack ==
    /\ cstage = "json"
    /\ cstage' = "back"
    /\ cback' = DeserializeJson(cjson.obj)
    /\ UNCHANGED <<ctext, cnotes, cjson>>
    /\ UNCHANGED fsVars

NextCodec == CodecDecode \/ CodecEncode \/ CodecReadBack

SpecCodec == InitCodec /\ [][NextCodec]_vars

(***************************************************************************)
(* Vocabulary of the properties.                                           *)
(***************************************************************************)
Events(op) == {i \in 1..Len(trace) : trace[i].op = op}
Touched == Events("read") \cup Events("decode") \cup Events("encode") \cup Events("write")
WritesDone == {i \in Events("write") : trace[i].ok}

\* p names something in the file system the run started on
Present(p) == p # <<>> /\ Canon(p) \in DOMAIN fs0
\* the directory that holds p exists ("" is the working directory)
ParentPresent(p) == p # <<>> /\ Canon(Front(p)) \in DOMAIN fs0
                    /\ fs0[Canon(Front(p))].kind = "dir"

RECURSIVE Titled(_)
\* every mapping of the document has a string title
Titled(y) == /\ y.title.kind = "str"
             /\ \A i \in 1..Len(y.notes.items) : Titled(y.notes.items[i])

\* p is a file whose text is a document of the schema
Decodable(p) == /\ Present(p) /\ fs0[Canon(p)].kind = "file"
                /\ fs0[Canon(p)].text.valid /\ Titled(fs0[Canon(p)].text.doc)
\* p is a file holding well-formed text in which some mapping has no title
Untitled(p) == /\ Present(p) /\ fs0[Canon(p)].kind = "file"
               /\ fs0[Canon(p)].text.valid /\ ~Titled(fs0[Canon(p)].text.doc)

RECURSIVE DocOf(_)
\* the Document a source mapping denotes
DocOf(y) ==
    [title |-> y.title.text,
     notes |-> IF y.notes.state = "seq"
               THEN [some |-> TRUE,
                     items |-> [i \in 1..Len(y.notes.items) |-> DocOf(y.notes.items[i])]]
               ELSE [some |-> FALSE, items |-> <<>>]]

\* a name with its final .yaml or .yml replaced by .json
ReplaceSuffix(n) ==
    IF EndsWith(n, SufYaml) THEN SubSeq(n, 1, Len(n) - Len(SufYaml)) \o SufJson
    ELSE IF EndsWith(n, SufYml) THEN SubSeq(n, 1, Len(n) - Len(SufYml)) \o SufJson
    ELSE n

\* the regular files directly in the input directory with a .yaml or .yml name
Eligible ==
    {q \in DOMAIN fs0 : /\ q # <<>>
                        /\ Front(q) = Canon(from_path)
                        /\ fs0[q].kind = "file"
                        /\ (EndsWith(q[Len(q)], SufYaml) \/ EndsWith(q[Len(q)], SufYml))}

\* the files the run created or changed
Written == {q \in DOMAIN fs : q \notin DOMAIN fs0 \/ fs[q] # fs0[q]}

FileDone == mode = "file" /\ pc = "done"
DirDone == mode = "dir" /\ pc = "done"

(***************************************************************************)
(* Properties.                                                             *)
(***************************************************************************)

\* C1: convert on an input path that does not exist returns the Io error of
\* the first check, "infile does not exist", whatever the output path is, and
\* reads, decodes and writes nothing: the file system is left as it was.
C1_MissingInput ==
    (FileDone /\ ~Present(from_path)) =>
        /\ res = IoErr("infile does not exist")
        /\ fs = fs0
        /\ Touched = {}

\* a run of convert on a missing input with an output directory that is
\* missing too
C1_Witness ==
    /\ FileDone /\ ~Present(from_path)
    /\ to_path = <<N_nodir, N_a_json>>
    /\ res.kind = "Io"

\* C2: convert on an existing input and an output path whose parent
\* directory does not exist returns an Io error, never a decode error, before
\* it reads or decodes anything; it writes no file and creates no directory.
C2_MissingOutDir ==
    (FileDone /\ Present(from_path) /\ to_path # <<>> /\ ~ParentPresent(to_path)) =>
        /\ res = IoErr("outfile directory does not exists")
        /\ Touched = {}
        /\ fs = fs0
        /\ DOMAIN fs = DOMAIN fs0

\* a run of convert on a file without a title and an output path in a
\* directory that does not exist
C2_Witness ==
    /\ FileDone /\ Untitled(from_path)
    /\ to_path = <<N_nodir, N_a_json>>
    /\ res.kind = "Io"

\* C3: in convert_dir a conversion that fails ends the batch at once.  While
\* the loop runs and when it returns Ok every conversion begun has written
\* its output; when the batch has failed, exactly the last conversion begun
\* has not, the result is that file's error (a decode error for a text that
\* is no document, an Io error for a missing output directory), no item the
\* walk had still to yield was looked at, and whatever was written before is
\* still on disk.
C3_AbortOnFirstFailure ==
    mode = "dir" =>
        /\ (pc = "walk" \/ res.kind = "Ok") =>
              Cardinality(Events("converting")) = Cardinality(WritesDone)
        /\ (pc = "done" /\ res.kind # "Ok") =>
              /\ Cardinality(Events("converting")) = Cardinality(WritesDone) + 1
              /\ LET last == CHOOSE i \in Events("converting") :
                                \A j \in Events("converting") : j <= i
                     failing == trace[last].path
                 IN  /\ \A i \in WritesDone : i < last
                     /\ \A i \in last..Len(trace) :
                           trace[i].path \in {failing, trace[last].dst}
                     /\ ~ParentPresent(trace[last].dst) => res.kind = "Io"
                     /\ (ParentPresent(trace[last].dst) /\ ~Decodable(failing)) =>
                           res.kind = "De"
              /\ \A k \in 1..Len(iter), i \in 1..Len(trace) : trace[i].path # iter[k].path
              /\ \A i \in WritesDone :
                    /\ Canon(trace[i].path) \in DOMAIN fs
                    /\ fs[Canon(trace[i].path)].kind = "file"
                    /\ fs[Canon(trace[i].path)].text.fmt = "json"

\* three eligible files, the second of them malformed: the first is written,
\* the batch fails with a decode error and the third is still to be yielded
C3_Witness ==
    /\ DirDone /\ res.kind = "De"
    /\ Len(listing) = 3
    /\ Cardinality(Eligible) = 3
    /\ Cardinality(Events("converting")) = 2
    /\ Cardinality(WritesDone) = 1
    /\ Len(iter) = 1 /\ iter[1].ok /\ iter[1].is_file

\* C4: an error of the directory walk (on an entry, or on the input
\* directory itself) ends convert_dir at once with an Io error; nothing is
\* processed after it.
C4_EnumerationErrorAborts ==
    mode = "dir" =>
        \A i \in Events("entry") :
            ~trace[i].ok => (i = Len(trace) /\ pc = "done" /\ res.kind = "Io")

\* C5: when convert_dir returns Ok the files it wrote are exactly the
\* eligible files of the input directory, each under the output directory
\* with its suffix replaced by .json.
C5_ExactOutputs ==
    (DirDone /\ res.kind = "Ok") =>
        /\ Written = {Canon(to_path) \o <<ReplaceSuffix(q[Len(q)])>> : q \in Eligible}
        /\ {Canon(trace[i].path) : i \in WritesDone} = Written

\* C6: the JSON that convert writes decodes to the Document of the source:
\* the same titles, the same children in the same order and, at every node,
\* notes absent where the source has none and present, even if empty, where
\* the source has a list.
C6_RoundTrip ==
    cstage = "back" => (cback = DocOf(ctext.doc) /\ cback = cnotes)

\* a document with two children of different titles, the first without
\* notes, the second with an empty list of notes, read back
C6_Witness ==
    /\ cstage = "back"
    /\ cback.notes.some /\ Len(cback.notes.items) = 2
    /\ cback.notes.items[1].title # cback.notes.items[2].title
    /\ ~cback.notes.items[1].notes.some
    /\ cback.notes.items[2].notes.some /\ cback.notes.items[2].notes.items = <<>>

\* C7: convert on a file in which the root or a nested note has no title,
\* with the input existing and the directory of the output path existing,
\* returns a decode error and leaves the output path as it was.
C7_MissingTitleRejected ==
    (FileDone /\ Untitled(from_path) /\ ParentPresent(to_path)) =>
        /\ res.kind = "De"
        /\ fs = fs0
        /\ Events("write") = {}

\* C7, for the output paths whose parent the check of convert accepts
C7_MissingTitleRejectedWhenAccepted ==
    (FileDone /\ Untitled(from_path) /\ to_path # <<>>
        /\ Exists(fs0, Front(to_path))) =>
        /\ res.kind = "De"
        /\ fs = fs0
        /\ Events("write") = {}

\* C8: convert succeeds when the input is a file holding a document, the
\* directory of the output path exists (the working directory for a bare
\* file name) and the output path is no directory: it returns Ok and the
\* output path holds the whole encoded document.
C8_SucceedsOnPreconditions ==
    (FileDone /\ Decodable(from_path) /\ ParentPresent(to_path)
        /\ ~IsDir(fs0, to_path)) =>
        /\ res.kind = "Ok"
        /\ Canon(to_path) \in DOMAIN fs
        /\ fs[Canon(to_path)] =
              FileNode(ToJson(FromYaml(fs0[Canon(from_path)].text).val).val)

\* C9: within one run of convert_dir no two files are converted to the same
\* destination, and a successful batch leaves one output per eligible file.
C9_DistinctDestinations ==
    mode = "dir" =>
        /\ \A i, j \in Events("converting") :
              trace[i].path # trace[j].path => trace[i].dst # trace[j].dst
        /\ (pc = "done" /\ res.kind = "Ok") =>
              Cardinality(Written) = Cardinality(Events("converting"))

\* C10: the destination convert_dir derives for an entry is the output
\* directory joined with the entry's name, its final .yaml or .yml replaced
\* by .json and nothing else changed.
C10_DerivedName ==
    mode = "dir" =>
        \A i \in Events("converting") :
            LET n == trace[i].path[Len(trace[i].path)]
            IN  /\ trace[i].dst = Join(to_path, ReplaceSuffix(n))
                /\ EndsWith(trace[i].dst[Len(trace[i].dst)], SufJson)

====
